---------------------------- MODULE Spec2Model ----------------------------
(***************************************************************************)
(* A model of routines.cpp: the N-D array allocators and deallocators, the *)
(* checked 1-D calloc wrappers, the spline constructors and the 2-D/3-D    *)
(* vector and tensor algebra.                                              *)
(*                                                                         *)
(* Reals are modelled by small integers: every formula below is exact on   *)
(* them, so a difference found here is a difference of the formulas and    *)
(* not one of rounding.                                                    *)
(***************************************************************************)
EXTENDS Integers, Sequences, FiniteSets, TLC

(***************************************************************************)
(* Bounds of the model.                                                    *)
(***************************************************************************)
\* every dimension n, l, m, p of an N-D array ranges over 1..MaxDim
MaxDim == 2
\* the length asked of a 1-D allocator ranges over -1..MaxLen
MaxLen == 4
\* a spline is built over 1..MaxN abscissas
MaxN == 3
\* the abscissas are drawn from 0..MaxExp
MaxExp == 2
\* ndim of the cross products ranges over 1..MaxNdim
MaxNdim == 3
\* a vector component ranges over -1..MaxComp
MaxComp == 1
\* a matrix element of matrix_determinant ranges over -1..MaxElem
MaxElem == 1
\* a tensor element of sigma ranges over 0..MaxSigma
MaxSigma == 1

VARIABLES
    \* ---- N-D arrays (routines.cpp 150-280) ----
    shape,      \* which allocator/deallocator pair is exercised
    dims,       \* the dimensions the caller passes to both calls
    apc,        \* where the caller is: "alloc", "allocated", "dealloc", ...
    plan,       \* the statements of the running call still to execute
    blocks,     \* every block `new` returned: block -> [size, leaf, zeroed]
    live,       \* the blocks not yet released
    written,    \* pointer slots stored inside the bounds of their array
    stray,      \* pointer slots stored outside the bounds of their array
    strayMem,   \* what a read of a stray slot gives back
    heapOk,     \* FALSE once an undefined release may have damaged the heap
    relLog      \* the release events of the deallocate call, in order

avars == <<shape, dims, apc, plan, blocks, live, written, stray, strayMem,
           heapOk, relLog>>

VARIABLES
    \* ---- 1-D calloc wrappers (routines.cpp 74-142) ----
    kind,       \* the element kind: which of the four wrappers is called
    reqN,       \* the requested length n
    cpc,        \* "call", "check", "returned" or "abort"
    f,          \* the local f: what calloc gave back, [ptr, data]
    ret,        \* what the caller receives
    reported    \* the sizes the error message names

cvars == <<kind, reqN, cpc, f, ret, reported>>

VARIABLES
    \* ---- spline constructors (routines.cpp 297-386) ----
    variant,    \* "log10": create_log10_spline, "linear": create_linear_spline
    abscissa,   \* the caller's array log10x (x for the linear variant)
    abscissa0,  \* its contents at the call
    func,       \* the evaluator, as the table of its values
    spc,        \* "start", "loop", "accel", "init", "done" or "abort"
    si,         \* the loop variable i
    ordinate,   \* the output slot log10y (y): [set, data]
    spline,     \* the output slot spline: [set, size, xa, ya, init]
    acc,        \* the output slot acc: [set, cache]
    calls,      \* the indices the evaluator has been invoked for, in order
    abortKind,  \* which exit(-1) ended the call: "none", "alloc", "domain"
    diag        \* the x, y the domain message names

svars == <<variant, abscissa, abscissa0, func, spc, si, ordinate, spline, acc,
           calls, abortKind, diag>>

VARIABLES
    \* ---- vector_cross_product, vector_cross_product_in_place (413-458) ----
    ndim,       \* the argument ndim of both calls
    x0,         \* the contents of x at the calls
    y0,         \* the contents of y at the calls
    r,          \* the array the argument r designates: "r", "x" or "y"
    cpMem,      \* the arrays of the allocating call: x, y and cp
    ipMem,      \* the arrays of the in-place call: x, y and the buffer r
    xpc         \* "cross", "in_place", "done" or "crashed"

xvars == <<ndim, x0, y0, r, cpMem, ipMem, xpc>>

VARIABLES
    \* ---- matrix_determinant (522-539) ----
    detDim,     \* the argument ndim
    detA,       \* the argument a
    det,        \* the value returned
    dpc         \* "call" or "returned"

dvars == <<detDim, detA, det, dpc>>

VARIABLES
    \* ---- tensor_transformation (472-520) ----
    tdim,       \* the argument ndim
    tmem,       \* the 2-D arrays: object -> matrix
    sigma,      \* the object the argument sigma designates: "S", or "A" too
    tmem0,      \* the arrays at the call
    result_A,   \* the object returned
    tpc         \* "call", "returned" or "bad_alloc"

tvars == <<tdim, tmem, sigma, tmem0, result_A, tpc>>

vars == <<avars, cvars, svars, xvars, dvars, tvars>>

(***************************************************************************)
(* N-D arrays.  A block is named by the index path of the slot the         *)
(* allocator stores it in: <<>> is x, <<i>> is x[i], <<i,j>> is x[i][j].   *)
(***************************************************************************)
Shapes == {"2d", "3d", "3di", "4d"}

\* a pointer value that designates no block `new` ever returned
Wild == << 0 - 1 >>

\* the outcomes of reading a pointer slot that was stored out of bounds:
\* the store landed in padding and reads back, or the slot has been
\* overwritten by a non-heap value, or by the pointer of a sibling leaf
StrayOutcomes == {"intact", "wild", "alias"}

\* g[0] \o g[1] \o ... \o g[k-1]: the statements of a for loop of k rounds
RECURSIVE Cat(_, _)
Cat(g, k) == IF k <= 0 THEN <<>> ELSE Cat(g, k - 1) \o g[k - 1]

\* x<path> = new T[size]
NewOp(path, size, leaf) ==
    [kind |-> "new", path |-> path, size |-> size, leaf |-> leaf,
     idx |-> 0, form |-> "array"]

\* x<path>[idx] = 0.0
StoreOp(path, idx) ==
    [kind |-> "store", path |-> path, size |-> 0, leaf |-> TRUE,
     idx |-> idx, form |-> "array"]

\* delete[] x<path> (form "array") or delete x<path> (form "scalar")
DeleteOp(path, form) ==
    [kind |-> "delete", path |-> path, size |-> 0, leaf |-> FALSE,
     idx |-> 0, form |-> form]

two_dimensional_array(n, l) ==
    <<NewOp(<<>>, n, FALSE)>>
    \o Cat([i \in 0..(n - 1) |-> <<NewOp(<<i>>, l, TRUE)>>], n)
    \o Cat([i \in 0..(n - 1) |->
            Cat([j \in 0..(l - 1) |-> <<StoreOp(<<i>>, j)>>], l)], n)

deallocate_two_dimensional_array(n, l) ==
    Cat([i \in 0..(n - 1) |-> <<DeleteOp(<<i>>, "array")>>], n)
    \o <<DeleteOp(<<>>, "scalar")>>

three_dimensional_array(n, l, m) ==
    <<NewOp(<<>>, n, FALSE)>>
    \o Cat([i \in 0..(n - 1) |->
            <<NewOp(<<i>>, l, FALSE)>>
            \o Cat([j \in 0..(l - 1) |-> <<NewOp(<<i, j>>, m, TRUE)>>], l)], n)

\* a deallocator that releases x[i] before the rows stored in it
deallocate_three_dimensional_array_parent_first(n, l, m) ==
    Cat([i \in 0..(n - 1) |->
         <<DeleteOp(<<i>>, "array")>>
         \o Cat([j \in 0..(l - 1) |-> <<DeleteOp(<<i, j>>, "array")>>], l)], n)
    \o <<DeleteOp(<<>>, "scalar")>>

deallocate_three_dimensional_array(n, l, m) ==
    Cat([i \in 0..(n - 1) |->
         Cat([j \in 0..(l - 1) |-> <<DeleteOp(<<i, j>>, "array")>>], l)
         \o <<DeleteOp(<<i>>, "array")>>], n)
    \o <<DeleteOp(<<>>, "scalar")>>

\* the innermost loop runs k over 0..p-1, not over 0..m-1 (line 221)
four_dimensional_array(n, l, m, p) ==
    <<NewOp(<<>>, n, FALSE)>>
    \o Cat([i \in 0..(n - 1) |->
            <<NewOp(<<i>>, l, FALSE)>>
            \o Cat([j \in 0..(l - 1) |->
                    <<NewOp(<<i, j>>, m, FALSE)>>
                    \o Cat([k \in 0..(p - 1) |->
                            <<NewOp(<<i, j, k>>, p, TRUE)>>], p)], l)], n)

\* the innermost loop runs k over 0..p-1 here too (line 239)
deallocate_four_dimensional_array(n, l, m, p) ==
    Cat([i \in 0..(n - 1) |->
         Cat([j \in 0..(l - 1) |->
              Cat([k \in 0..(p - 1) |->
                   <<DeleteOp(<<i, j, k>>, "array")>>], p)
              \o <<DeleteOp(<<i, j>>, "array")>>], l)
         \o <<DeleteOp(<<i>>, "array")>>], n)
    \o <<DeleteOp(<<>>, "scalar")>>

three_dimensional_int_array(n, l, m) ==
    <<NewOp(<<>>, n, FALSE)>>
    \o Cat([i \in 0..(n - 1) |->
            <<NewOp(<<i>>, l, FALSE)>>
            \o Cat([j \in 0..(l - 1) |-> <<NewOp(<<i, j>>, m, TRUE)>>], l)], n)

deallocate_three_int_dimensional_array(n, l, m) ==
    Cat([i \in 0..(n - 1) |->
         Cat([j \in 0..(l - 1) |-> <<DeleteOp(<<i, j>>, "array")>>], l)
         \o <<DeleteOp(<<i>>, "array")>>], n)
    \o <<DeleteOp(<<>>, "scalar")>>

AllocPlan(s, d) ==
    CASE s = "2d"  -> two_dimensional_array(d.n, d.l)
      [] s = "3d"  -> three_dimensional_array(d.n, d.l, d.m)
      [] s = "3di" -> three_dimensional_int_array(d.n, d.l, d.m)
      [] s = "4d"  -> four_dimensional_array(d.n, d.l, d.m, d.p)

DeallocPlan(s, d) ==
    CASE s = "2d"  -> deallocate_two_dimensional_array(d.n, d.l)
      [] s = "3d"  -> deallocate_three_dimensional_array(d.n, d.l, d.m)
      [] s = "3di" -> deallocate_three_int_dimensional_array(d.n, d.l, d.m)
      [] s = "4d"  -> deallocate_four_dimensional_array(d.n, d.l, d.m, d.p)

\* the dimensions a shape does not take are held at 1
DimsOf(s) ==
    {d \in [n : 1..MaxDim, l : 1..MaxDim, m : 1..MaxDim, p : 1..MaxDim] :
        /\ (s = "2d" => d.m = 1)
        /\ (s # "4d" => d.p = 1)}

\* the array a slot path lies in, and the slot's index in it
Parent(path) == SubSeq(path, 1, Len(path) - 1)
Slot(path) == path[Len(path)]

\* a slot is inside its array when its index is below the array's length
InBounds(path) ==
    \/ path = <<>>
    \/ /\ Parent(path) \in DOMAIN blocks
       /\ Slot(path) < blocks[Parent(path)].size

ArraysStart ==
    /\ shape \in Shapes
    /\ dims \in DimsOf(shape)
    /\ apc = "alloc"
    /\ plan = AllocPlan(shape, dims)
    /\ blocks = << >>
    /\ live = {}
    /\ written = {}
    /\ stray = {}
    /\ strayMem = "none"
    /\ heapOk = TRUE
    /\ relLog = <<>>

\* one `x<path> = new T[size]` of the running allocator
AllocNew ==
    /\ apc = "alloc"
    /\ plan # <<>>
    /\ Head(plan).kind = "new"
    /\ LET op == Head(plan) IN
        /\ blocks' = [b \in DOMAIN blocks \cup {op.path} |->
                        IF b = op.path
                        THEN [size |-> op.size, leaf |-> op.leaf, zeroed |-> {}]
                        ELSE blocks[b]]
        /\ live' = live \cup {op.path}
        /\ IF InBounds(op.path)
           THEN /\ written' = written \cup {op.path}
                /\ UNCHANGED <<stray, strayMem, heapOk>>
           ELSE /\ stray' = stray \cup {op.path}
                /\ strayMem' \in (IF strayMem = "none" THEN StrayOutcomes
                                  ELSE {strayMem})
                /\ heapOk' = FALSE
                /\ UNCHANGED written
    /\ plan' = Tail(plan)
    /\ UNCHANGED <<shape, dims, apc, relLog>>
    /\ UNCHANGED <<cvars, svars, xvars, dvars, tvars>>

\* one `x[i][j] = 0.0` of two_dimensional_array
AllocStore ==
    /\ apc = "alloc"
    /\ plan # <<>>
    /\ Head(plan).kind = "store"
    /\ LET op == Head(plan) IN
        blocks' = [blocks EXCEPT ![op.path].zeroed = @ \cup {op.idx}]
    /\ plan' = Tail(plan)
    /\ UNCHANGED <<shape, dims, apc, live, written, stray, strayMem, heapOk,
                   relLog>>
    /\ UNCHANGED <<cvars, svars, xvars, dvars, tvars>>

\* `new` throws std::bad_alloc: the call is left with what it built so far
AllocThrow ==
    /\ apc = "alloc"
    /\ plan # <<>>
    /\ Head(plan).kind = "new"
    /\ apc' = "bad_alloc"
    /\ plan' = <<>>
    /\ UNCHANGED <<shape, dims, blocks, live, written, stray, strayMem,
                   heapOk, relLog>>
    /\ UNCHANGED <<cvars, svars, xvars, dvars, tvars>>

\* `return x;`
AllocReturn ==
    /\ apc = "alloc"
    /\ plan = <<>>
    /\ apc' = "allocated"
    /\ UNCHANGED <<shape, dims, plan, blocks, live, written, stray, strayMem,
                   heapOk, relLog>>
    /\ UNCHANGED <<cvars, svars, xvars, dvars, tvars>>

\* the caller passes x and the same dimensions to the matching deallocator
DeallocCall ==
    /\ apc = "allocated"
    /\ apc' = "dealloc"
    /\ plan' = DeallocPlan(shape, dims)
    /\ UNCHANGED <<shape, dims, blocks, live, written, stray, strayMem,
                   heapOk, relLog>>
    /\ UNCHANGED <<cvars, svars, xvars, dvars, tvars>>

\* the pointer the deallocator reads from slot `path`
ReadSlot(path) ==
    IF path \in written THEN path
    ELSE IF path \in stray
         THEN CASE strayMem = "intact" -> path
                [] strayMem = "alias"  -> Parent(path) \o <<0>>
                [] OTHER               -> Wild
         ELSE Wild

\* one `delete[] x<path>` or `delete x` of the running deallocator
Release ==
    /\ apc = "dealloc"
    /\ plan # <<>>
    /\ LET op  == Head(plan)
           ptr == ReadSlot(op.path)
       IN
        /\ relLog' = Append(relLog,
                        [pos |-> op.path, blk |-> ptr, form |-> op.form])
        /\ IF ptr \in live
           THEN /\ live' = live \ {ptr}
                /\ plan' = Tail(plan)
                /\ UNCHANGED apc
                \* a block of new[] released by a scalar delete
                /\ heapOk' \in (IF op.form = "array" THEN {heapOk}
                                ELSE {heapOk, FALSE})
           ELSE \* a release of what is not a live block: the run goes on
                \* over a damaged heap, or the allocator ends the process
                /\ UNCHANGED live
                /\ heapOk' = FALSE
                /\ \/ /\ plan' = Tail(plan)
                      /\ UNCHANGED apc
                   \/ /\ plan' = <<>>
                      /\ apc' = "crashed"
    /\ UNCHANGED <<shape, dims, blocks, written, stray, strayMem>>
    /\ UNCHANGED <<cvars, svars, xvars, dvars, tvars>>

\* the deallocator returns
DeallocReturn ==
    /\ apc = "dealloc"
    /\ plan = <<>>
    /\ apc' = "done"
    /\ UNCHANGED <<shape, dims, plan, blocks, live, written, stray, strayMem,
                   heapOk, relLog>>
    /\ UNCHANGED <<cvars, svars, xvars, dvars, tvars>>

(***************************************************************************)
(* The checked 1-D allocators calloc_double_array, calloc_float_array,     *)
(* calloc_int_array and calloc_size_t_array.                               *)
(***************************************************************************)
Kinds == {"double", "float", "int", "size_t"}

NullBlock == [ptr |-> "NULL", data |-> <<>>]

\* what calloc(n, sizeof(T)) can give back.  n is converted to size_t: a
\* negative n asks for more than the address space holds and fails; a
\* request of 0 elements gives NULL or an empty block
CallocOutcomes(n) ==
    IF n < 0 THEN {NullBlock}
    ELSE {NullBlock, [ptr |-> "heap", data |-> [i \in 1..n |-> 0]]}

\* a wrapper that does not test what calloc gave back
AllocFailed_never(p) == FALSE

\* the test `!(f = (T *) calloc(n, sizeof(T)))`
AllocFailed(p) == p.ptr = "NULL"

\* sizeof(T), in bytes, on the LP64 targets the code is built for
SizeOf(k) == IF k \in {"double", "size_t"} THEN 8 ELSE 4

\* the two numbers of "Error allocating array of size %d (%d).\n"
Report(k, n) == <<n, (n * SizeOf(k)) \div SizeOf("int")>>

CallocStart ==
    /\ kind \in Kinds
    /\ reqN \in (0 - 1)..MaxLen
    /\ cpc = "call"
    /\ f = NullBlock
    /\ ret = NullBlock
    /\ reported = <<>>

CallocIdle ==
    /\ kind = "double"
    /\ reqN = 0
    /\ cpc = "idle"
    /\ f = NullBlock
    /\ ret = NullBlock
    /\ reported = <<>>

\* f = (T *) calloc(n, sizeof(T))
Calloc ==
    /\ cpc = "call"
    /\ f' \in CallocOutcomes(reqN)
    /\ cpc' = "check"
    /\ UNCHANGED <<kind, reqN, ret, reported>>
    /\ UNCHANGED <<avars, svars, xvars, dvars, tvars>>

\* if(!f) { printf(...); fflush(stdout); exit(-1); }
CallocAbort ==
    /\ cpc = "check"
    /\ AllocFailed(f)
    /\ reported' = Report(kind, reqN)
    /\ cpc' = "abort"
    /\ UNCHANGED <<kind, reqN, f, ret>>
    /\ UNCHANGED <<avars, svars, xvars, dvars, tvars>>

\* return f;
CallocReturn ==
    /\ cpc = "check"
    /\ ~AllocFailed(f)
    /\ ret' = f
    /\ cpc' = "returned"
    /\ UNCHANGED <<kind, reqN, f, reported>>
    /\ UNCHANGED <<avars, svars, xvars, dvars, tvars>>

(***************************************************************************)
(* The spline constructors.  The interpolation library is opaque: an       *)
(* interpolant is the record of what gsl_spline_alloc and gsl_spline_init  *)
(* were given.                                                             *)
(***************************************************************************)
Variants == {"log10", "linear"}

\* pow(10.0, e) and log10(y) on the powers of ten
Pow10(e) == 10 ^ e
\* log10 of a non-positive y is -inf or NaN: no ordinate
Log10(y) == IF y <= 0 THEN 0 - 1000 ELSE CHOOSE e \in 0..9 : 10 ^ e = y

\* the values an evaluator returns: negative, zero, and powers of ten
YVals == {0 - 1, 0, 1, 10}

\* the strictly ascending sequences of 1..MaxN abscissas from 0..MaxExp
Ascending ==
    {s \in UNION {[1..k -> 0..MaxExp] : k \in 1..MaxN} :
        \A a \in 1..(Len(s) - 1) : s[a] < s[a + 1]}

\* the points at which a variant hands the evaluator its argument
Argument(v, e) == IF v = "log10" THEN Pow10(e) ELSE e

NoSpline == [set |-> FALSE, size |-> 0, xa |-> <<>>, ya |-> <<>>,
             init |-> FALSE]

SplineStart ==
    /\ variant \in Variants
    /\ abscissa \in Ascending
    /\ abscissa0 = abscissa
    /\ func \in [{Argument(variant, e) : e \in 0..MaxExp} -> YVals]
    /\ spc = "start"
    /\ si = 0
    /\ ordinate = [set |-> FALSE, data |-> <<>>]
    /\ spline = NoSpline
    /\ acc = [set |-> FALSE, cache |-> 0]
    /\ calls = <<>>
    /\ abortKind = "none"
    /\ diag = <<>>

SplineIdle ==
    /\ variant = "linear"
    /\ abscissa = <<>>
    /\ abscissa0 = <<>>
    /\ func = <<>>
    /\ spc = "idle"
    /\ si = 0
    /\ ordinate = [set |-> FALSE, data |-> <<>>]
    /\ spline = NoSpline
    /\ acc = [set |-> FALSE, cache |-> 0]
    /\ calls = <<>>
    /\ abortKind = "none"
    /\ diag = <<>>

\* n is the size of the arrays
SplineN == Len(abscissa)

\* log10y = calloc_double_array(n);   (y = ... for the linear variant)
\* the whole call: calloc, then its check, which ends the process or returns
SplineCalloc ==
    /\ spc = "start"
    /\ \E got \in CallocOutcomes(SplineN) :
        IF AllocFailed(got)
        THEN /\ spc' = "abort"
             /\ abortKind' = "alloc"
             /\ UNCHANGED ordinate
        ELSE /\ ordinate' = [set |-> TRUE, data |-> got.data]
             /\ spc' = "loop"
             /\ UNCHANGED abortKind
    /\ UNCHANGED <<variant, abscissa, abscissa0, func, si, spline, acc, calls,
                   diag>>
    /\ UNCHANGED <<avars, cvars, xvars, dvars, tvars>>

\* a test that lets y = 0 through
DomainViolation_strict(y) == y < 0

\* the test `y<=0` of create_log10_spline
DomainViolation(y) == y <= 0

\* a round that stores log10(y) before it tests y
Log10Sample_store_first ==
    /\ spc = "loop"
    /\ variant = "log10"
    /\ si < SplineN
    /\ LET x == Pow10(abscissa[si + 1])
           y == func[x]
       IN
        /\ calls' = Append(calls, si)
        /\ ordinate' = [ordinate EXCEPT !.data[si + 1] = Log10(y)]
        /\ IF DomainViolation(y)
           THEN /\ diag' = <<x, y>>
                /\ spc' = "abort"
                /\ abortKind' = "domain"
                /\ UNCHANGED si
           ELSE /\ si' = si + 1
                /\ UNCHANGED <<diag, spc, abortKind>>
    /\ UNCHANGED <<variant, abscissa, abscissa0, func, spline, acc>>
    /\ UNCHANGED <<avars, cvars, xvars, dvars, tvars>>

\* one round of the loop of create_log10_spline
Log10Sample ==
    /\ spc = "loop"
    /\ variant = "log10"
    /\ si < SplineN
    /\ LET x == Pow10(abscissa[si + 1])
           y == func[x]
       IN
        /\ calls' = Append(calls, si)
        /\ IF DomainViolation(y)
           THEN /\ diag' = <<x, y>>
                /\ spc' = "abort"
                /\ abortKind' = "domain"
                /\ UNCHANGED <<ordinate, si>>
           ELSE /\ ordinate' = [ordinate EXCEPT !.data[si + 1] = Log10(y)]
                /\ si' = si + 1
                /\ UNCHANGED <<diag, spc, abortKind>>
    /\ UNCHANGED <<variant, abscissa, abscissa0, func, spline, acc>>
    /\ UNCHANGED <<avars, cvars, xvars, dvars, tvars>>

\* one round of the loop of create_linear_spline: y[i] = func(x[i],params)
LinearSample ==
    /\ spc = "loop"
    /\ variant = "linear"
    /\ si < SplineN
    /\ calls' = Append(calls, si)
    /\ ordinate' = [ordinate EXCEPT !.data[si + 1] = func[abscissa[si + 1]]]
    /\ si' = si + 1
    /\ UNCHANGED <<variant, abscissa, abscissa0, func, spc, spline, acc,
                   abortKind, diag>>
    /\ UNCHANGED <<avars, cvars, xvars, dvars, tvars>>

\* a loop that stops one round early
SamplingDone_early == si >= SplineN - 1

\* the loop condition i<n has failed
SamplingDone == si >= SplineN

\* spline = gsl_spline_alloc(gsl_interp_cspline,n);
SplineAlloc ==
    /\ spc = "loop"
    /\ SamplingDone
    /\ spline' = [NoSpline EXCEPT !.set = TRUE, !.size = SplineN]
    /\ spc' = "accel"
    /\ UNCHANGED <<variant, abscissa, abscissa0, func, si, ordinate, acc,
                   calls, abortKind, diag>>
    /\ UNCHANGED <<avars, cvars, xvars, dvars, tvars>>

\* acc = gsl_interp_accel_alloc();
AccelAlloc ==
    /\ spc = "accel"
    /\ acc' = [set |-> TRUE, cache |-> 0]
    /\ spc' = "init"
    /\ UNCHANGED <<variant, abscissa, abscissa0, func, si, ordinate, spline,
                   calls, abortKind, diag>>
    /\ UNCHANGED <<avars, cvars, xvars, dvars, tvars>>

\* gsl_spline_init(spline, x, y, n); and the return
SplineInit ==
    /\ spc = "init"
    /\ spline' = [spline EXCEPT !.xa = abscissa, !.ya = ordinate.data,
                                !.init = TRUE]
    /\ spc' = "done"
    /\ UNCHANGED <<variant, abscissa, abscissa0, func, si, ordinate, acc,
                   calls, abortKind, diag>>
    /\ UNCHANGED <<avars, cvars, xvars, dvars, tvars>>

(***************************************************************************)
(* vector_cross_product and vector_cross_product_in_place.  Arrays are     *)
(* 0-based in the code and 1-based here: x[0] is x[1].                     *)
(***************************************************************************)
Vectors == [1..3 -> (0 - 1)..MaxComp]

\* obj[idx] = val, through the pointer obj
Store(mem, obj, idx, val) == [mem EXCEPT ![obj][idx] = val]

\* the body of vector_cross_product once calloc has given cp
vector_cross_product(mem, n) ==
    IF n = 2
    THEN LET m0 == [mem EXCEPT !.cp = <<0>>]
         IN Store(m0, "cp", 1, m0.x[1] * m0.y[2] - m0.x[2] * m0.y[1])
    ELSE LET m0 == [mem EXCEPT !.cp = <<0, 0, 0>>]
             m1 == Store(m0, "cp", 1, m0.x[2] * m0.y[3] - m0.x[3] * m0.y[2])
             m2 == Store(m1, "cp", 2, m1.x[3] * m1.y[1] - m1.x[1] * m1.y[3])
         IN Store(m2, "cp", 3, m2.x[1] * m2.y[2] - m2.x[2] * m2.y[1])

\* an in-place variant whose second component has its terms exchanged
vector_cross_product_in_place_swapped(mem, rp, n) ==
    IF n = 2
    THEN Store(mem, rp, 1, mem.x[1] * mem.y[2] - mem.x[2] * mem.y[1])
    ELSE LET m1 == Store(mem, rp, 1, mem.x[2] * mem.y[3] - mem.x[3] * mem.y[2])
             m2 == Store(m1, rp, 2, m1.x[1] * m1.y[3] - m1.x[3] * m1.y[1])
         IN Store(m2, rp, 3, m2.x[1] * m2.y[2] - m2.x[2] * m2.y[1])

\* the body of vector_cross_product_in_place: the stores go through rp, one
\* after the other, and each right-hand side reads x and y as they then are
vector_cross_product_in_place(mem, rp, n) ==
    IF n = 2
    THEN Store(mem, rp, 1, mem.x[1] * mem.y[2] - mem.x[2] * mem.y[1])
    ELSE LET m1 == Store(mem, rp, 1, mem.x[2] * mem.y[3] - mem.x[3] * mem.y[2])
             m2 == Store(m1, rp, 2, m1.x[3] * m1.y[1] - m1.x[1] * m1.y[3])
         IN Store(m2, rp, 3, m2.x[1] * m2.y[2] - m2.x[2] * m2.y[1])

CrossStart ==
    /\ ndim \in 1..MaxNdim
    /\ x0 \in Vectors
    /\ y0 \in Vectors
    /\ r \in {"r", "x", "y"}
    /\ cpMem = [x |-> x0, y |-> y0, cp |-> <<>>]
    /\ ipMem = [x |-> x0, y |-> y0, r |-> <<9, 9, 9>>]
    /\ xpc = "cross"

CrossIdle ==
    /\ ndim = 2
    /\ x0 = <<>>
    /\ y0 = <<>>
    /\ r = "r"
    /\ cpMem = <<>>
    /\ ipMem = <<>>
    /\ xpc = "idle"

\* cp = vector_cross_product(x, y, ndim): calloc is not checked here, and a
\* NULL cp is stored through, which ends the process
VectorCrossProduct ==
    /\ xpc = "cross"
    /\ \E got \in CallocOutcomes(IF ndim = 2 THEN 1 ELSE 3) :
        IF got.ptr = "NULL"
        THEN /\ xpc' = "crashed"
             /\ UNCHANGED cpMem
        ELSE /\ cpMem' = vector_cross_product(cpMem, ndim)
             /\ xpc' = "in_place"
    /\ UNCHANGED <<ndim, x0, y0, r, ipMem>>
    /\ UNCHANGED <<avars, cvars, svars, dvars, tvars>>

\* vector_cross_product_in_place(r, x, y, ndim) on the same inputs
VectorCrossProductInPlace ==
    /\ xpc = "in_place"
    /\ ipMem' = vector_cross_product_in_place(ipMem, r, ndim)
    /\ xpc' = "done"
    /\ UNCHANGED <<ndim, x0, y0, r, cpMem>>
    /\ UNCHANGED <<avars, cvars, svars, dvars, tvars>>

(***************************************************************************)
(* matrix_determinant.  Matrices are indexed from 0, as in the code.       *)
(***************************************************************************)
Matrices(d, vals) == [0..(d - 1) -> [0..(d - 1) -> vals]]

\* a determinant whose last statement subtracts a difference, not a sum
matrix_determinant_sign(a, n) ==
    IF n = 2
    THEN a[0][0] * a[1][1] - a[1][0] * a[0][1]
    ELSE LET d0 == 0
             d1 == d0 + (a[0][0] * a[1][1] * a[2][2] + a[0][1] * a[1][2] * a[2][0])
             d2 == d1 + (a[0][2] * a[1][0] * a[2][1] - a[0][2] * a[1][1] * a[2][0])
         IN d2 - (a[0][1] * a[1][0] * a[2][2] - a[0][0] * a[1][2] * a[2][1])

matrix_determinant(a, n) ==
    IF n = 2
    THEN a[0][0] * a[1][1] - a[1][0] * a[0][1]
    ELSE LET d0 == 0
             d1 == d0 + (a[0][0] * a[1][1] * a[2][2] + a[0][1] * a[1][2] * a[2][0])
             d2 == d1 + (a[0][2] * a[1][0] * a[2][1] - a[0][2] * a[1][1] * a[2][0])
         IN d2 - (a[0][1] * a[1][0] * a[2][2] + a[0][0] * a[1][2] * a[2][1])

DetStart ==
    /\ detDim \in 2..3
    /\ detA \in Matrices(detDim, (0 - 1)..MaxElem)
    /\ det = 0
    /\ dpc = "call"

DetIdle ==
    /\ detDim = 2
    /\ detA = <<>>
    /\ det = 0
    /\ dpc = "idle"

MatrixDeterminant ==
    /\ dpc = "call"
    /\ det' = matrix_determinant(detA, detDim)
    /\ dpc' = "returned"
    /\ UNCHANGED <<detDim, detA>>
    /\ UNCHANGED <<avars, cvars, svars, xvars, tvars>>

(***************************************************************************)
(* tensor_transformation.                                                  *)
(***************************************************************************)
\* g[0] + g[1] + ... + g[k-1]: `acc = 0.0; for(i<k) acc += g[i];`
RECURSIVE SumTo(_, _)
SumTo(g, k) == IF k <= 0 THEN 0 ELSE SumTo(g, k - 1) + g[k - 1]

\* what two_dimensional_array(n, l) returns: n rows of l zeros
ZeroArray(n, l) == [i \in 0..(n - 1) |-> [j \in 0..(l - 1) |-> 0]]

\* a loop body that reads sigma[i][j] for sigma[j][i]
TensorElement_transposed(a, s, n, m, d) ==
    SumTo([j \in 0..(d - 1) |->
            a[n][j] * SumTo([i \in 0..(d - 1) |-> a[m][i] * s[i][j]], d)], d)

\* x of the loop body: the sum over j of a[n][j] * (sum over i of
\* a[m][i]*sigma[j][i])
TensorElement(a, s, n, m, d) ==
    SumTo([j \in 0..(d - 1) |->
            a[n][j] * SumTo([i \in 0..(d - 1) |-> a[m][i] * s[j][i]], d)], d)

\* the arrays after the call: result_A is allocated as object res and filled
tensor_transformation(mem, ap, sp, res, d) ==
    LET m0 == [o \in DOMAIN mem \cup {res} |->
                 IF o = res THEN ZeroArray(d, d) ELSE mem[o]]
    IN [m0 EXCEPT ![res] =
          [n \in 0..(d - 1) |-> [m \in 0..(d - 1) |->
              TensorElement(m0[ap], m0[sp], n, m, d)]]]

\* the object `new` gives result_A: one that is no array of the caller
FreshObject(mem) == "R"

Identity(d) == [i \in 0..(d - 1) |-> [j \in 0..(d - 1) |->
                  IF i = j THEN 1 ELSE 0]]
Exchange(d) == [i \in 0..(d - 1) |-> [j \in 0..(d - 1) |->
                  IF i + j = d - 1 THEN 1 ELSE 0]]
Doubling(d) == [i \in 0..(d - 1) |-> [j \in 0..(d - 1) |->
                  IF i = j THEN 2 ELSE 0]]
Transforms(d) == {Identity(d), Exchange(d), Doubling(d)}

TensorStart ==
    /\ tdim \in 2..3
    /\ sigma \in {"S", "A"}
    /\ \E a \in Transforms(tdim), s \in Matrices(tdim, 0..MaxSigma) :
          tmem = [A |-> a, S |-> s]
    /\ tmem0 = tmem
    /\ result_A = "none"
    /\ tpc = "call"

TensorIdle ==
    /\ tdim = 2
    /\ sigma = "S"
    /\ tmem = <<>>
    /\ tmem0 = <<>>
    /\ result_A = "none"
    /\ tpc = "idle"

\* result_A = tensor_transformation(a, sigma, ndim)
TensorTransformation ==
    /\ tpc = "call"
    /\ result_A' = FreshObject(tmem)
    /\ tmem' = tensor_transformation(tmem, "A", sigma, result_A', tdim)
    /\ tpc' = "returned"
    /\ UNCHANGED <<tdim, sigma, tmem0>>
    /\ UNCHANGED <<avars, cvars, svars, xvars, dvars>>

\* `new` throws std::bad_alloc in two_dimensional_array
TensorThrow ==
    /\ tpc = "call"
    /\ tpc' = "bad_alloc"
    /\ UNCHANGED <<tdim, sigma, tmem, tmem0, result_A>>
    /\ UNCHANGED <<avars, cvars, svars, xvars, dvars>>

(***************************************************************************)
(* The specifications: one per group of routines, the other groups idle.   *)
(***************************************************************************)
ArraysIdle ==
    /\ shape = "2d"
    /\ dims = [n |-> 1, l |-> 1, m |-> 1, p |-> 1]
    /\ apc = "idle"
    /\ plan = <<>>
    /\ blocks = << >>
    /\ live = {}
    /\ written = {}
    /\ stray = {}
    /\ strayMem = "none"
    /\ heapOk = TRUE
    /\ relLog = <<>>

AlgebraIdle == CrossIdle /\ DetIdle /\ TensorIdle

InitArrays == ArraysStart /\ CallocIdle /\ SplineIdle /\ AlgebraIdle

NextArrays ==
    \/ AllocNew
    \/ AllocStore
    \/ AllocThrow
    \/ AllocReturn
    \/ DeallocCall
    \/ Release
    \/ DeallocReturn

SpecArrays == InitArrays /\ [][NextArrays]_vars

InitCalloc == ArraysIdle /\ CallocStart /\ SplineIdle /\ AlgebraIdle

NextCalloc ==
    \/ Calloc
    \/ CallocAbort
    \/ CallocReturn

SpecCalloc == InitCalloc /\ [][NextCalloc]_vars

InitSpline == ArraysIdle /\ CallocIdle /\ SplineStart /\ AlgebraIdle

NextSpline ==
    \/ SplineCalloc
    \/ Log10Sample
    \/ LinearSample
    \/ SplineAlloc
    \/ AccelAlloc
    \/ SplineInit

SpecSpline == InitSpline /\ [][NextSpline]_vars

OthersIdle == ArraysIdle /\ CallocIdle /\ SplineIdle

InitCross == OthersIdle /\ CrossStart /\ DetIdle /\ TensorIdle

NextCross ==
    \/ VectorCrossProduct
    \/ VectorCrossProductInPlace

SpecCross == InitCross /\ [][NextCross]_vars

InitDet == OthersIdle /\ CrossIdle /\ DetStart /\ TensorIdle

NextDet == MatrixDeterminant

SpecDet == InitDet /\ [][NextDet]_vars

InitTensor == OthersIdle /\ CrossIdle /\ DetIdle /\ TensorStart

NextTensor ==
    \/ TensorTransformation
    \/ TensorThrow

SpecTensor == InitTensor /\ [][NextTensor]_vars

(***************************************************************************)
(* The properties.                                                         *)
(***************************************************************************)
Events == 1..Len(relLog)

\* the depth at which a shape's leaf arrays are stored
LeafDepth(sh) == CASE sh = "2d" -> 1 [] sh = "4d" -> 3 [] OTHER -> 2

\* 0 for the release of a leaf array, 1 for a row-pointer array, 2 for x
Rank(e) ==
    IF e.pos = <<>> THEN 2
    ELSE IF Len(e.pos) = LeafDepth(shape) THEN 0 ELSE 1

\* q is the slot of an array stored, at any depth, beneath the array of p
Beneath(q, pp) ==
    /\ Len(q) > Len(pp)
    /\ SubSeq(q, 1, Len(pp)) = pp

\* C1: for all n, l, m, p >= 1, four_dimensional_array(n,l,m,p) returns a
\* structure in which x[i][j][k] is an allocated array of p elements for
\* every i < n, j < l and k < m, and the allocator never stores a leaf
\* pointer at an index k outside the m slots of x[i][j].
C1_EveryLeafAllocated ==
    shape = "4d" =>
        /\ stray = {}
        /\ apc = "allocated" =>
             \A i \in 0..(dims.n - 1), j \in 0..(dims.l - 1),
                k \in 0..(dims.m - 1) :
                /\ <<i, j, k>> \in written
                /\ blocks[<<i, j, k>>].leaf
                /\ blocks[<<i, j, k>>].size = dims.p

\* C2: for each shape and all dimensions >= 1, once the deallocator called
\* with the allocator's dimensions has returned, no block the allocator
\* created is still live, every such block has been released exactly once,
\* and nothing was released that the allocator did not create.
C2_RoundTripReleasesAllOnce ==
    apc = "done" =>
        /\ live = {}
        /\ \A b \in DOMAIN blocks :
             Cardinality({e \in Events : relLog[e].blk = b}) = 1
        /\ \A e \in Events : relLog[e].blk \in DOMAIN blocks

\* C3 as stated: in the release events of one deallocate call, no
\* row-pointer array is released before all leaf arrays have been released,
\* and the top pointer is released last: leaves, then rows, then x.
C3_LeavesThenRowsThenTop ==
    \A a \in Events, b \in Events :
        a < b => Rank(relLog[a]) <= Rank(relLog[b])

\* C3 as amended: no array is released before an array stored beneath it
\* (so x is released last), and when the deallocator returns it has issued
\* exactly one release for every slot the allocator stored in bounds.
C3_ChildrenBeforeParent ==
    /\ \A a \in Events, b \in Events :
         a < b => ~Beneath(relLog[b].pos, relLog[a].pos)
    /\ apc = "done" =>
         \A q \in written :
            Cardinality({e \in Events : relLog[e].pos = q}) = 1

\* the 3-D deallocator has returned from an array of two or more planes:
\* x[0] was released before the leaves of x[1]
C3_Witness ==
    /\ apc = "done"
    /\ shape = "3d"
    /\ dims.n >= 2
    /\ \E a \in Events, b \in Events :
         /\ a < b
         /\ relLog[a].pos = <<0>>
         /\ relLog[b].pos = <<1, 0>>

\* C5: for every requested length n and every element kind the 1-D
\* allocator has exactly two outcomes: it returns a non-null array of n
\* elements that are all zero, or, calloc having failed, it ends in the
\* fatal abort; it never returns a null result to the caller.
C5_ZeroedArrayOrAbort ==
    /\ cpc \in {"call", "check", "returned", "abort"}
    /\ cpc = "returned" =>
         /\ ret.ptr # "NULL"
         /\ Len(ret.data) = reqN
         /\ \A i \in 1..reqN : ret.data[i] = 0
    /\ cpc = "abort" =>
         /\ f.ptr = "NULL"
         /\ ret.ptr = "NULL"
         /\ reported[1] = reqN
    /\ cpc # "returned" => ret.ptr = "NULL"

\* the size_t wrapper has returned an array of two or more elements
C5_Witness ==
    /\ cpc = "returned"
    /\ kind = "size_t"
    /\ reqN >= 2
    /\ ret.ptr = "heap"

\* the value the evaluator returns at the abscissa of index k (from 0)
Sample(k) == func[Argument(variant, abscissa0[k + 1])]

Indices == 0..(SplineN - 1)

SomeNonPositive == \E k \in Indices : Sample(k) <= 0

\* C4 as stated: in create_log10_spline, if the evaluator returns y <= 0
\* at any of the n abscissas the call ends in the fatal abort and never
\* returns: no interpolant and no accelerator is constructed and the
\* spline and acc slots are never assigned; conversely, if every sample is
\* > 0 the call never enters the abort state.
C4_AbortIffNonPositive ==
    variant = "log10" =>
        /\ SomeNonPositive =>
             /\ spc \in {"start", "loop", "abort"}
             /\ spc = "loop" => si < SplineN
             /\ ~spline.set
             /\ ~acc.set
        /\ ~SomeNonPositive => spc # "abort"

\* C4 as amended: the same, but with every sample > 0 the call never
\* enters the domain-violation abort; the only abort left to it is the
\* one of calloc_double_array when the ordinate array cannot be allocated.
C4_DomainAbortIffNonPositive ==
    variant = "log10" =>
        /\ SomeNonPositive =>
             /\ spc \in {"start", "loop", "abort"}
             /\ spc = "loop" => si < SplineN
             /\ ~spline.set
             /\ ~acc.set
        /\ ~SomeNonPositive =>
             /\ abortKind # "domain"
             /\ spc = "abort" => (abortKind = "alloc" /\ ~ordinate.set)

\* the second sample is the first that is not > 0, and the call has aborted
C4_Witness ==
    /\ variant = "log10"
    /\ spc = "abort"
    /\ abortKind = "domain"
    /\ si = 1
    /\ Sample(0) > 0
    /\ Sample(1) <= 0

\* C9: create_linear_spline first allocates the ordinate array of length
\* n, then sets ordinate[i] = f(abscissa[i]) for every i < n, and only
\* after all n are set constructs the interpolant and then the
\* accelerator; on return the three output slots are assigned and the
\* abscissa array is unchanged.
C9_LinearProtocol ==
    variant = "linear" =>
        /\ abscissa = abscissa0
        /\ calls # <<>> => ordinate.set
        /\ ordinate.set => Len(ordinate.data) = SplineN
        /\ calls = [c \in 1..si |-> c - 1]
        /\ \A i \in 0..(si - 1) :
             ordinate.data[i + 1] = func[abscissa0[i + 1]]
        /\ spline.set => (ordinate.set /\ si = SplineN)
        /\ acc.set => spline.set
        /\ spline.init => (acc.set /\ spline.xa = abscissa0
                           /\ spline.ya = ordinate.data
                           /\ spline.size = SplineN)
        /\ spc = "done" => (ordinate.set /\ spline.set /\ spline.init
                            /\ acc.set)

\* the linear constructor has returned a spline over three abscissas
C9_Witness ==
    /\ variant = "linear"
    /\ spc = "done"
    /\ SplineN = 3
    /\ spline.ya = [i \in 1..3 |-> func[abscissa0[i]]]

\* C10: in create_log10_spline the evaluator is invoked at most once per
\* abscissa, in ascending index order from 0, and never for an index after
\* the first one k whose value is <= 0; at the domain abort the ordinate
\* array is allocated and assigned to the caller's slot, and its entries
\* at the indices >= k still hold their initial zero.
C10_SamplingStopsAtFirstNonPositive ==
    variant = "log10" =>
        /\ calls = [c \in 1..Len(calls) |-> c - 1]
        /\ Len(calls) <= SplineN
        /\ \A c \in 1..Len(calls) :
             \A b \in 1..(c - 1) : Sample(calls[b]) > 0
        /\ abortKind = "domain" =>
             /\ spc = "abort"
             /\ calls # <<>>
             /\ LET k == calls[Len(calls)] IN
                 /\ Sample(k) <= 0
                 /\ ordinate.set
                 /\ Len(ordinate.data) = SplineN
                 /\ \A i \in k..(SplineN - 1) : ordinate.data[i + 1] = 0

\* the third sample is the first that is not > 0: the evaluator has been
\* invoked for 0, 1 and 2, and the call has aborted
C10_Witness ==
    /\ variant = "log10"
    /\ abortKind = "domain"
    /\ calls = <<0, 1, 2>>
    /\ ordinate.data[2] # 0

\* what both cross products are to write for x0, y0 and ndim
Expected ==
    IF ndim = 2
    THEN <<x0[1] * y0[2] - x0[2] * y0[1]>>
    ELSE <<x0[2] * y0[3] - x0[3] * y0[2],
           x0[3] * y0[1] - x0[1] * y0[3],
           x0[1] * y0[2] - x0[2] * y0[1]>>

\* what the in-place variant has written through r
InPlaceResult == SubSeq(ipMem[r], 1, IF ndim = 2 THEN 1 ELSE 3)

BothAgree ==
    /\ cpMem.cp = Expected
    /\ InPlaceResult = Expected
    /\ cpMem.x = x0
    /\ cpMem.y = y0
    /\ ipMem.x = x0
    /\ ipMem.y = y0

\* C6 as stated: for all x, y and every ndim the allocating and the
\* in-place cross product write identical results, one element
\* x0*y1 - x1*y0 for ndim = 2 and the three elements of the 3-D cross
\* product otherwise, and neither variant modifies x or y.
C6_VariantsAgree == xpc = "done" => BothAgree

\* C6 as amended: the same whenever the output buffer r of the in-place
\* variant is an array of its own, overlapping neither x nor y.
C6_VariantsAgreeDisjoint ==
    /\ xpc \in {"in_place", "done"} =>
         (cpMem.cp = Expected /\ cpMem.x = x0 /\ cpMem.y = y0)
    /\ (xpc = "done" /\ r = "r") => BothAgree

\* both variants have written a 3-D cross product with no zero component
C6_Witness ==
    /\ xpc = "done"
    /\ r = "r"
    /\ ndim = 3
    /\ \A i \in 1..3 : cpMem.cp[i] # 0
    /\ InPlaceResult = cpMem.cp

\* C7: matrix_determinant(a, 2) is a00*a11 - a10*a01 and
\* matrix_determinant(a, 3) is the first-row cofactor expansion
\* a00*(a11*a22 - a12*a21) - a01*(a10*a22 - a12*a20)
\* + a02*(a10*a21 - a11*a20); the determinant of the identity is 1.
C7_DeterminantIsCofactorExpansion ==
    dpc = "returned" =>
        /\ detDim = 2 =>
             det = detA[0][0] * detA[1][1] - detA[1][0] * detA[0][1]
        /\ detDim = 3 =>
             det = detA[0][0] * (detA[1][1] * detA[2][2] - detA[1][2] * detA[2][1])
                 - detA[0][1] * (detA[1][0] * detA[2][2] - detA[1][2] * detA[2][0])
                 + detA[0][2] * (detA[1][0] * detA[2][1] - detA[1][1] * detA[2][0])
        /\ detA = Identity(detDim) => det = 1

\* the determinant of a 3x3 matrix with no zero element has been returned
C7_Witness ==
    /\ dpc = "returned"
    /\ detDim = 3
    /\ \A i \in 0..2, j \in 0..2 : detA[i][j] # 0
    /\ det # 0

\* C8: for dim 2 and 3 and every square sigma,
\* tensor_transformation(identity, sigma, dim) returns a newly allocated
\* dim x dim array equal element-wise to sigma, and leaves a and sigma
\* unchanged.
C8_IdentityTransformIsNoOp ==
    (tpc = "returned" /\ tmem0.A = Identity(tdim)) =>
        /\ result_A \notin DOMAIN tmem0
        /\ result_A \in DOMAIN tmem
        /\ DOMAIN tmem[result_A] = 0..(tdim - 1)
        /\ \A n \in 0..(tdim - 1) :
             /\ DOMAIN tmem[result_A][n] = 0..(tdim - 1)
             /\ \A m \in 0..(tdim - 1) :
                  tmem[result_A][n][m] = tmem0[sigma][n][m]
        /\ tmem.A = tmem0.A
        /\ tmem.S = tmem0.S

\* the identity has been applied to a 3x3 sigma that is not symmetric
C8_Witness ==
    /\ tpc = "returned"
    /\ tdim = 3
    /\ sigma = "S"
    /\ tmem0.A = Identity(3)
    /\ tmem0.S[0][1] # tmem0.S[1][0]
    /\ tmem[result_A] = tmem0.S

=============================================================================
